---- MODULE Spec2Model ----
(***************************************************************************)
(* Model of tgtg_scanner/tgtg/tgtg_client.py: the TgtgClient orchestrator  *)
(* (credential state, login / token refresh / polling) and its guarded     *)
(* send _post with the Datadome cookie refresh and the failsafe captcha    *)
(* escalation.  The remote API, the Datadome SDK endpoint, random.choice   *)
(* and the wall clock are the environment: their answers are chosen with   *)
(* \E from small sets.                                                     *)
(***************************************************************************)
EXTENDS Integers, Sequences, FiniteSets, TLC

\* ------------------------------------------------------------------ bounds
\* 403 answers the remote API may give inside one guarded send
MaxBlocksPerCall == 3
\* consecutive 403 answers the remote API may give before a 200/202
MaxRun == 12
\* the same, in behaviours that log in
MaxRunLogin == 1
\* distinct cookie values the Datadome endpoint hands out
NumCookies == 2
\* distinct response bodies of the remote API
NumBodies == 2
\* distinct object identities of Transport Sessions
NumSessionIds == 2
\* calls of login() before which the wall clock has advanced
MaxTicks == 2
\* constructor argument max_polling_tries (the default is 24)
max_polling_tries == 3
\* distinct access tokens passed to post()
NumTokens == 2
\* post() calls made on one transport session
MaxPosts == 3
\* full pages of favorites the remote API holds at most
MaxPages == 2
\* items on the page that ends the favorites
ShortPage == 37
\* threads using one client
NumThreads == 2
\* calls the threads make in all
MaxThreadCalls == 4

\* ------------------------------------------------------- program constants
DEFAULT_ACCESS_TOKEN_LIFETIME == 14400
DEFAULT_POLLING_WAIT_TIME == 5
SecondsPerDay == 86400
\* get_favorites, line 343
PAGE_SIZE == 100
COOLDOWN_SLEEP == 600
RETRY_SLEEP == 1
HTTP_OK == 200
HTTP_ACCEPTED == 202
HTTP_FORBIDDEN == 403
HTTP_SERVER_ERROR == 500

REFRESH_ENDPOINT == "token/v1/refresh"
AUTH_BY_EMAIL_ENDPOINT == "auth/v5/authByEmail"
AUTH_POLLING_ENDPOINT == "auth/v5/authByRequestPollingId"
API_ITEM_ENDPOINT == "item/v9/"

\* Python's None, for tokens, cookies, user agents and the email
None == 0
\* last_time_token_refreshed = None
NoTime == 0 - 1

\* the three entries of USER_AGENTS, formatted with the apk version
USER_AGENTS == {1, 2, 3}
\* a user agent pinned by the caller
PinnedUserAgent == 4

access_token_lifetime == DEFAULT_ACCESS_TOKEN_LIFETIME
polling_wait_time == DEFAULT_POLLING_WAIT_TIME

\* statuses the remote API answers with; 500 stands for every status that is
\* neither 200, 202 nor 403
Statuses == {HTTP_OK, HTTP_ACCEPTED, HTTP_FORBIDDEN, HTTP_SERVER_ERROR}
Cookies == 1..NumCookies
Bodies == 1..NumBodies
LoginStates == {"TERMS", "WAIT", "OTHER", "MISSING"}
Tokens == 1..NumTokens
Threads == 1..NumThreads

VARIABLES
  \* ---- TgtgClient fields
  email, access_token, refresh_token, datadome_cookie,
  last_time_token_refreshed, fixed_user_agent, user_agent, session,
  captcha_error_count,
  \* ---- control: position of the running call, _post's arguments and caller
  pc, op, path, caller, response, tries, result,
  \* ---- environment: the wall clock, and how long the remote API keeps blocking
  now, ticks, maxRun,
  \* ---- history of the running guarded send (statuses, fetched, escalations,
  \* sleptEsc) and of the running login (sleptPoll, polls)
  statuses, fetched, escalations, sleptEsc, sleptPoll, polls,
  \* ---- the credentials as they were when the running top-level call began
  start,
  \* ---- history across calls
  unresolved,
  \* ---- a transport session used on its own: its default headers, the request
  \* its last post() sent, and the number of post() calls made on it
  headers, sent, nposts,
  \* ---- the running get_favorites(): its position, its locals page and items
  \* (one entry per page: the page asked for and the number of items got), and
  \* the pages asked of get_items so far
  fav,
  \* ---- threads sharing the client: for each its position, the counter value
  \* it has loaded and the response it holds; whether a thread has ever run
  \* while another was inside a call; the calls the threads have made
  thr, raced, threadCalls

clientVars == <<email, access_token, refresh_token, datadome_cookie,
                last_time_token_refreshed, fixed_user_agent, user_agent, session,
                captcha_error_count>>
ctlVars == <<pc, op, path, caller, response, tries, result>>
histVars == <<statuses, fetched, escalations, sleptEsc, sleptPoll, polls>>
sessionVars == <<headers, sent, nposts>>
thrVars == <<thr, raced, threadCalls>>
otherVars == <<sessionVars, fav, thrVars>>
vars == <<clientVars, ctlVars, now, ticks, maxRun, histVars, start, unresolved,
          otherVars>>

\* ---------------------------------------------------------------- helpers
\* TgtgSession.http_adapter, lines 64-71: the one HTTPAdapter object (and its
\* connection pool) made when the class is defined
http_adapter == 1

NoSession == [id |-> 0, user_agent |-> None, datadome |-> None, jar |-> 0,
              adapter |-> None]
NoResponse == [status |-> 0, content |-> 0, state |-> ""]
NoResult == [kind |-> "none", exc |-> "", status |-> 0, content |-> 0]

Returned(r) == [kind |-> "return", exc |-> "", status |-> r.status, content |-> r.content]
Raised(e, r) == [kind |-> "raise", exc |-> e, status |-> r.status, content |-> r.content]

\* TgtgSession.__init__: a new object with a cookie jar of its own (line 85), the
\* class's adapter mounted (lines 86-87), the user-agent header and, when a
\* cookie is given, the datadome cookie in its jar
TgtgSession(oldId, ua, cookie) ==
  [id |-> (oldId % NumSessionIds) + 1, user_agent |-> ua, datadome |-> cookie,
   jar |-> (oldId % NumSessionIds) + 1, adapter |-> http_adapter]

\* TgtgSession.__init__, lines 88-94: the default headers carry no authorization
Headers(ua) == [user_agent |-> ua, authorization |-> None]
NoHeaders == Headers(None)
NoRequest == [token |-> None, given |-> FALSE, authorization |-> None]

\* TgtgSession.post, lines 104-105: the caller's headers, else the session's own
\* default headers dict (the object itself, not a copy)
KwargsHeaders(given, g, h) == IF given THEN g ELSE h

\* TgtgSession.post, lines 106-107: the authorization entry is stored in that dict
WithAuthorization(d, token) ==
  IF token # None THEN [d EXCEPT !.authorization = token] ELSE d

\* TgtgSession.post, line 108: requests sends the session's default headers
\* overlaid with the headers of the call
SentAuthorization(d, h) ==
  IF d.authorization # None THEN d.authorization ELSE h.authorization

\* get_items, line 335: the number of items in response.json().get("items", []);
\* body 1 is a full page, body 2 the short page, any other has no items
ItemCount(content) ==
  IF content = 1 THEN PAGE_SIZE ELSE IF content = 2 THEN ShortPage ELSE 0

\* a page of exactly page_size items taken for the end
IsLastPageInclusive(n) == n <= PAGE_SIZE

\* get_favorites, line 347
IsLastPage(n) == n < PAGE_SIZE

\* the counter stored back as it was loaded
IncrementedNot(v) == v

\* _post, line 264: the value `self.captcha_error_count += 1` stores
Incremented(v) == v + 1

NoThread == [pc |-> "idle", reg |-> 0, resp |-> NoResponse]

NoFavorites == [pc |-> "none", page |-> 0, items |-> <<>>, asked |-> <<>>]

\* _get_user_agent: the pinned user agent, else random.choice(USER_AGENTS)
GetUserAgent(fixed, choice) == IF fixed # None THEN fixed ELSE choice

\* what random.choice can return where _create_session would call it: it is
\* called only when there is neither a user agent nor a pinned one
RandomChoices(ua, fixed) ==
  IF ua = None /\ fixed = None THEN USER_AGENTS ELSE {None}

\* _create_session, first half: derive the user agent when there is none
SessionUserAgent(ua, fixed, choice) ==
  IF ua = None THEN GetUserAgent(fixed, choice) ELSE ua

\* 202 taken for a failure
IsSuccessOkOnly(status) == status = HTTP_OK

\* 200 taken for a failure
IsSuccessAcceptedOnly(status) == status = HTTP_ACCEPTED

IsSuccess(status) == status \in {HTTP_OK, HTTP_ACCEPTED}

\* 403 handled like any other failure status
IsChallengeNever(status) == FALSE

\* every status from 403 up taken for a challenge
IsChallengeFrom403(status) == status >= HTTP_FORBIDDEN

IsChallenge(status) == status = HTTP_FORBIDDEN

\* names bound in _post's scope (its locals) or at module level when line 248
\* evaluates the bare name access_token
PostScopeNames ==
  {"self", "path", "kwargs", "request_url", "response", "new_cookie",
   "cookies_to_remove", "cookie", "log", "HTTPStatus", "time", "TgtgAPIError"}

NameDefined(n) == n \in PostScopeNames

\* the cooldown rung one count late
RungCooldownLate(c) ==
  IF c = 1 THEN "user_agent"
  ELSE IF c = 2 THEN "session"
  ELSE IF c = 4 THEN "cookie_session"
  ELSE IF c > 10 THEN "cooldown"
  ELSE "none"

\* the cookie rung at 3 instead of 4
RungCookieEarly(c) ==
  IF c = 1 THEN "user_agent"
  ELSE IF c = 2 THEN "session"
  ELSE IF c = 3 THEN "cookie_session"
  ELSE IF c >= 10 THEN "cooldown"
  ELSE "none"

\* the failsafe ladder (the if/elif chain of lines 265-270), keyed by the
\* counter after its increment
Rung(c) ==
  IF c = 1 THEN "user_agent"
  ELSE IF c = 2 THEN "session"
  ELSE IF c = 4 THEN "cookie_session"
  ELSE IF c >= 10 THEN "cooldown"
  ELSE "none"

\* timedelta.seconds of (now - last): the seconds field, days excluded
TimedeltaSeconds(t, last) == (t - last) % SecondsPerDay

\* the comparison strict: a refresh exactly one lifetime old counts as stale
RefreshSkippedStrict(t, last) ==
  last # NoTime /\ TimedeltaSeconds(t, last) < access_token_lifetime

\* the guard of _refresh_token's early return
RefreshSkipped(t, last) ==
  last # NoTime /\ TimedeltaSeconds(t, last) <= access_token_lifetime

\* the token of the body before
JsonTokenStale(r) == r.content

\* the json fields of a response body
JsonToken(r) == r.content + 1

\* any single credential taken for enough
HasCredentialsAny(e, a, r) == e # None \/ a # None \/ r # None

\* login(), line 308: an email, or both tokens
HasCredentials(e, a, r) == e # None \/ (a # None /\ r # None)

\* the time that may have passed since the previous call when login() reads
\* the clock: none, exactly the lifetime, a second more, a second more than a day
Elapses ==
  {0, access_token_lifetime, access_token_lifetime + 1, SecondsPerDay + 1}

Credentials ==
  [access_token |-> access_token, refresh_token |-> refresh_token,
   last_time_token_refreshed |-> last_time_token_refreshed]

\* what the remote API may answer on a path
ResponsesOf(p) ==
  [status : Statuses, content : Bodies,
   state : IF p = AUTH_BY_EMAIL_ENDPOINT THEN LoginStates ELSE {""}]

\* ------------------------------------------------------------------- Init
\* TgtgClient.__init__, apart from the credentials the caller passes
InitClient ==
  /\ last_time_token_refreshed = NoTime
  /\ user_agent = fixed_user_agent
  /\ session = NoSession
  /\ captcha_error_count = 0
  /\ pc = "idle" /\ op = "none" /\ path = "" /\ caller = ""
  /\ response = NoResponse /\ tries = 0 /\ result = NoResult
  /\ now = 0 /\ ticks = 0
  /\ statuses = <<>> /\ fetched = <<>> /\ escalations = 0
  /\ sleptEsc = 0 /\ sleptPoll = 0 /\ polls = 0
  /\ start = Credentials
  /\ unresolved = 0

\* no transport session is used on its own
InitNoPosts ==
  /\ headers = NoHeaders /\ sent = NoRequest /\ nposts = 0
  /\ fav = NoFavorites
  /\ thr = [t \in Threads |-> NoThread] /\ raced = FALSE /\ threadCalls = 0

\* a client built with any combination of email, access token and refresh token,
\* a pinned user agent and no cookie
Init ==
  /\ email \in {None, 1}
  /\ access_token \in {None, 1}
  /\ refresh_token \in {None, 1}
  /\ datadome_cookie = None
  /\ fixed_user_agent = PinnedUserAgent
  /\ maxRun = MaxRunLogin
  /\ InitClient
  /\ InitNoPosts

\* a client built with both tokens, with or without a cookie and a pinned user
\* agent, used for guarded sends only
InitSend ==
  /\ email = None
  /\ access_token = 1
  /\ refresh_token = 1
  /\ datadome_cookie \in {None, 1}
  /\ fixed_user_agent \in {None, PinnedUserAgent}
  /\ maxRun = MaxRun
  /\ InitClient
  /\ InitNoPosts

\* ------------------------------------------------------- the guarded send
\* a top-level call starts: its history is empty
BeginCall(o) ==
  /\ op' = o
  /\ statuses' = <<>> /\ fetched' = <<>> /\ escalations' = 0
  /\ sleptEsc' = 0 /\ sleptPoll' = 0 /\ polls' = 0
  /\ start' = Credentials
  /\ response' = NoResponse /\ tries' = 0 /\ result' = NoResult

\* a direct call of _post(path) on an item endpoint
CallPost ==
  /\ pc = "idle"
  /\ BeginCall("_post")
  /\ pc' = "post" /\ path' = API_ITEM_ENDPOINT /\ caller' = "top"
  /\ UNCHANGED <<clientVars, now, ticks, maxRun, otherVars, unresolved>>

\* where _post's return leads in its caller
AfterReturn(c) ==
  CASE c = "refresh" -> "refresh_ret"
    [] c = "login" -> "login_ret"
    [] c = "poll" -> "poll_ret"
    [] OTHER -> "idle"

\* _post, lines 210-222 and 274: create the session on first use, POST, then
\* return on 200/202, go to the cookie refresh on 403, raise on anything else
SessionPost ==
  /\ pc = "post"
  /\ \E choice \in (IF session = NoSession
                    THEN RandomChoices(user_agent, fixed_user_agent)
                    ELSE {None}),
        r \in ResponsesOf(path) :
       LET ua == IF session = NoSession
                 THEN SessionUserAgent(user_agent, fixed_user_agent, choice)
                 ELSE user_agent
           s == IF session = NoSession
                THEN TgtgSession(0, ua, datadome_cookie)
                ELSE session
       IN
       /\ r.status = HTTP_FORBIDDEN =>
            /\ Len(SelectSeq(statuses, LAMBDA x : x = HTTP_FORBIDDEN)) < MaxBlocksPerCall
            /\ unresolved < maxRun
       /\ (fav.pc = "items" /\ IsSuccess(r.status) /\ ~IsLastPage(ItemCount(r.content))) =>
            Len(fav.items) < MaxPages
       /\ user_agent' = ua
       /\ session' = s
       /\ response' = r
       /\ statuses' = Append(statuses, r.status)
       /\ IF IsSuccess(r.status)
          THEN /\ captcha_error_count' = 0
               /\ unresolved' = 0
               /\ pc' = AfterReturn(caller)
               /\ result' = IF caller = "top" THEN Returned(r) ELSE result
          ELSE IF IsChallenge(r.status)
          THEN /\ pc' = "recover"
               /\ UNCHANGED <<captcha_error_count, unresolved, result>>
          ELSE /\ pc' = "idle"
               /\ result' = Raised("TgtgAPIError", r)
               /\ UNCHANGED <<captcha_error_count, unresolved>>
  /\ UNCHANGED <<email, access_token, refresh_token, datadome_cookie,
                 last_time_token_refreshed, fixed_user_agent,
                 op, path, caller, tries, now, ticks, maxRun, otherVars,
                 fetched, escalations, sleptEsc, sleptPoll, polls, start>>

\* _post, lines 223-261: the try block.  The cookie fetch raises, or it gives a
\* cookie that is stored on the client and in the session's jar; then line 248
\* evaluates the name access_token, and only if that name is bound is the POST
\* repeated.  Every exception of the block, the TgtgAPIError of line 257
\* included, is caught by `except Exception` and leads to the failsafe.
ChallengeRecovery ==
  /\ pc = "recover"
  /\ \E ok \in BOOLEAN : \E c \in (IF ok THEN Cookies ELSE {None}) :
       /\ fetched' = Append(fetched, ok)
       /\ IF ~ok
          THEN /\ pc' = "escalate"
               /\ unresolved' = unresolved + 1
               /\ UNCHANGED <<datadome_cookie, session, response, statuses,
                              captcha_error_count, result>>
          ELSE /\ datadome_cookie' = c
               /\ session' = [session EXCEPT !.datadome = c]
               /\ IF ~NameDefined("access_token")
                  THEN /\ pc' = "escalate"
                       /\ unresolved' = unresolved + 1
                       /\ UNCHANGED <<response, statuses, captcha_error_count, result>>
                  ELSE \E r \in ResponsesOf(path) :
                       /\ response' = r
                       /\ statuses' = Append(statuses, r.status)
                       /\ IF IsSuccess(r.status)
                          THEN /\ captcha_error_count' = 0
                               /\ unresolved' = 0
                               /\ pc' = AfterReturn(caller)
                               /\ result' = IF caller = "top" THEN Returned(r) ELSE result
                          ELSE /\ pc' = "escalate"
                               /\ unresolved' = unresolved + 1
                               /\ UNCHANGED <<captcha_error_count, result>>
  /\ UNCHANGED <<email, access_token, refresh_token, last_time_token_refreshed,
                 fixed_user_agent, user_agent,
                 op, path, caller, tries, now, ticks, maxRun, otherVars,
                 escalations, sleptEsc, sleptPoll, polls, start>>

\* _post, lines 263-272: the failsafe ladder, the sleeps and the recursive call
Escalate ==
  /\ pc = "escalate"
  /\ \E choice \in USER_AGENTS :
       LET c == Incremented(captcha_error_count)
           rung == Rung(c)
           recreate == rung \in {"session", "cookie_session", "cooldown"}
           cookie == IF rung = "cookie_session" THEN None ELSE datadome_cookie
           ua == IF rung = "user_agent"
                 THEN GetUserAgent(fixed_user_agent, choice)
                 ELSE IF recreate
                 THEN SessionUserAgent(user_agent, fixed_user_agent, choice)
                 ELSE user_agent
       IN
       /\ captcha_error_count' = IF rung = "cooldown" THEN 0 ELSE c
       /\ datadome_cookie' = cookie
       /\ user_agent' = ua
       /\ session' = IF recreate THEN TgtgSession(session.id, ua, cookie) ELSE session
       /\ sleptEsc' = sleptEsc + (IF rung = "cooldown" THEN COOLDOWN_SLEEP ELSE 0)
                                + RETRY_SLEEP
  /\ escalations' = escalations + 1
  /\ pc' = "post"
  /\ UNCHANGED <<email, access_token, refresh_token, last_time_token_refreshed,
                 fixed_user_agent, op, path, caller, response, tries, result, now,
                 ticks, maxRun, otherVars, statuses, fetched, sleptPoll, polls, start,
                 unresolved>>

\* ------------------------------------------------------------------ login
\* the loop going round once more than range(max_polling_tries)
PollLoopOneMore(k) ==
  IF k <= max_polling_tries
  THEN /\ pc' = "post" /\ path' = AUTH_POLLING_ENDPOINT /\ caller' = "poll"
       /\ tries' = k
       /\ polls' = polls + 1
       /\ result' = result
       /\ statuses' = <<>> /\ fetched' = <<>> /\ escalations' = 0 /\ sleptEsc' = 0
  ELSE /\ pc' = "idle"
       /\ result' = Raised("TgtgPollingError", NoResponse)
       /\ UNCHANGED <<path, caller, tries, polls,
                      statuses, fetched, escalations, sleptEsc>>

\* start_polling's loop head after k iterations: the next polling call, or
\* PollingError once range(max_polling_tries) is exhausted
PollLoop(k) ==
  IF k < max_polling_tries
  THEN /\ pc' = "post" /\ path' = AUTH_POLLING_ENDPOINT /\ caller' = "poll"
       /\ tries' = k
       /\ polls' = polls + 1
       /\ result' = result
       /\ statuses' = <<>> /\ fetched' = <<>> /\ escalations' = 0 /\ sleptEsc' = 0
  ELSE /\ pc' = "idle"
       /\ result' = Raised("TgtgPollingError", NoResponse)
       /\ UNCHANGED <<path, caller, tries, polls,
                      statuses, fetched, escalations, sleptEsc>>

\* login(), lines 308-312, with _refresh_token's early return (line 301); the
\* call reads the clock, which has moved by d since the previous call
Login ==
  /\ op' = "login"
  /\ statuses' = <<>> /\ fetched' = <<>> /\ escalations' = 0
  /\ sleptEsc' = 0 /\ sleptPoll' = 0 /\ polls' = 0
  /\ start' = Credentials
  /\ response' = NoResponse /\ tries' = 0
  /\ \E d \in Elapses :
       /\ d # 0 => ticks < MaxTicks
       /\ now' = now + d
       /\ ticks' = IF d # 0 THEN ticks + 1 ELSE ticks
  /\ IF ~HasCredentials(email, access_token, refresh_token)
     THEN /\ pc' = "idle"
          /\ result' = Raised("TGTGConfigurationError", NoResponse)
          /\ UNCHANGED <<path, caller>>
     ELSE IF access_token # None /\ refresh_token # None
     THEN IF RefreshSkipped(now', last_time_token_refreshed)
          THEN /\ pc' = "idle"
               /\ result' = Returned(NoResponse)
               /\ UNCHANGED <<path, caller>>
          ELSE /\ pc' = "post" /\ path' = REFRESH_ENDPOINT /\ caller' = "refresh"
               /\ result' = NoResult
     ELSE /\ pc' = "post" /\ path' = AUTH_BY_EMAIL_ENDPOINT /\ caller' = "login"
          /\ result' = NoResult
  /\ UNCHANGED <<clientVars, maxRun, unresolved>>

\* a top-level call of login()
CallLogin == pc = "idle" /\ Login /\ UNCHANGED otherVars

\* only the access token stored
RefreshReturnAccessOnly ==
  /\ pc = "refresh_ret"
  /\ access_token' = JsonToken(response)
  /\ pc' = "idle"
  /\ result' = Returned(response)
  /\ UNCHANGED <<email, refresh_token, last_time_token_refreshed, datadome_cookie,
                 fixed_user_agent, user_agent, session,
                 captcha_error_count, op, path, caller, response, tries, now, ticks,
                 maxRun, otherVars, histVars, start, unresolved>>

\* _refresh_token, lines 303-305: both tokens and the timestamp from the response
RefreshReturn ==
  /\ pc = "refresh_ret"
  /\ access_token' = JsonToken(response)
  /\ refresh_token' = JsonToken(response)
  /\ last_time_token_refreshed' = now
  /\ pc' = "idle"
  /\ result' = Returned(response)
  /\ UNCHANGED <<email, datadome_cookie, fixed_user_agent, user_agent, session,
                 captcha_error_count, op, path, caller, response, tries, now, ticks,
                 maxRun, otherVars, histVars, start, unresolved>>

\* login(), lines 313-316: the state field of the email-auth response
LoginReturn ==
  /\ pc = "login_ret"
  /\ IF response.state = "MISSING"
     THEN /\ pc' = "idle"
          /\ result' = Raised("KeyError", response)
          /\ UNCHANGED <<path, caller, tries, polls,
                         statuses, fetched, escalations, sleptEsc>>
     ELSE IF response.state = "TERMS"
     THEN /\ pc' = "idle"
          /\ result' = Raised("TgtgPollingError", response)
          /\ UNCHANGED <<path, caller, tries, polls,
                         statuses, fetched, escalations, sleptEsc>>
     ELSE IF response.state = "WAIT"
     THEN PollLoop(0)
     ELSE /\ pc' = "idle"
          /\ result' = Raised("TgtgLoginError", response)
          /\ UNCHANGED <<path, caller, tries, polls,
                         statuses, fetched, escalations, sleptEsc>>
  /\ UNCHANGED <<clientVars, op, response, now, ticks, maxRun, otherVars, sleptPoll, start,
                 unresolved>>

\* start_polling, lines 321-328: 202 sleeps and goes round the loop, 200 stores
\* the tokens and the timestamp and returns, any other status (which _post
\* never returns) goes round the loop without sleeping
PollReturn ==
  /\ pc = "poll_ret"
  /\ IF response.status = HTTP_ACCEPTED
     THEN /\ sleptPoll' = sleptPoll + polling_wait_time
          /\ PollLoop(tries + 1)
          /\ UNCHANGED <<access_token, refresh_token, last_time_token_refreshed>>
     ELSE IF response.status = HTTP_OK
     THEN /\ access_token' = JsonToken(response)
          /\ refresh_token' = JsonToken(response)
          /\ last_time_token_refreshed' = now
          /\ pc' = "idle"
          /\ result' = Returned(response)
          /\ UNCHANGED <<path, caller, tries, polls, sleptPoll,
                         statuses, fetched, escalations, sleptEsc>>
     ELSE /\ PollLoop(tries + 1)
          /\ UNCHANGED <<access_token, refresh_token, last_time_token_refreshed,
                         sleptPoll>>
  /\ UNCHANGED <<email, datadome_cookie, fixed_user_agent, user_agent, session,
                 captcha_error_count, op, response, now, ticks, maxRun, otherVars, start,
                 unresolved>>

Next ==
  \/ CallLogin \/ RefreshReturn \/ LoginReturn \/ PollReturn
  \/ SessionPost \/ ChallengeRecovery \/ Escalate

Spec == Init /\ [][Next]_vars

NextSend == CallPost \/ SessionPost \/ ChallengeRecovery \/ Escalate

SpecSend == InitSend /\ [][NextSend]_vars

\* sleeps and network calls return: a call that can take a step takes one
SpecSendFair == SpecSend /\ WF_vars(NextSend)

\* ---------------------------------------------------------- get_favorites
\* a client built with both tokens, a pinned user agent and no cookie
InitFavorites ==
  /\ email = None
  /\ access_token = 1
  /\ refresh_token = 1
  /\ datadome_cookie = None
  /\ fixed_user_agent = PinnedUserAgent
  /\ maxRun = MaxRunLogin
  /\ InitClient
  /\ InitNoPosts

\* get_favorites, line 343: items = [], page = 1
GetFavorites ==
  /\ pc = "idle" /\ fav.pc = "none"
  /\ fav' = [pc |-> "loop", page |-> 1, items |-> <<>>, asked |-> <<>>]
  /\ UNCHANGED <<clientVars, ctlVars, now, ticks, maxRun, histVars, start,
                 unresolved, sessionVars, thrVars>>

\* get_favorites, line 345, and get_items, line 332: get_items(page=page) is
\* called and calls login()
GetItems ==
  /\ pc = "idle" /\ fav.pc = "loop"
  /\ Login
  /\ fav' = [fav EXCEPT !.pc = "login", !.asked = Append(@, fav.page)]
  /\ UNCHANGED <<sessionVars, thrVars>>

\* get_items, lines 332-334: an error of login() ends get_favorites, else the
\* page is asked of the item endpoint
GetItemsPost ==
  /\ pc = "idle" /\ fav.pc = "login"
  /\ IF result.kind = "raise"
     THEN /\ fav' = [fav EXCEPT !.pc = "raised"]
          /\ UNCHANGED <<ctlVars, histVars, start>>
     ELSE /\ BeginCall("get_items")
          /\ pc' = "post" /\ path' = API_ITEM_ENDPOINT /\ caller' = "items"
          /\ fav' = [fav EXCEPT !.pc = "items"]
  /\ UNCHANGED <<clientVars, now, ticks, maxRun, unresolved, sessionVars, thrVars>>

\* get_items, line 335, and get_favorites, lines 346-349: the items of the
\* page are appended; a short page ends the loop, a full one asks for the next
GetItemsReturn ==
  /\ pc = "idle" /\ fav.pc = "items"
  /\ IF result.kind = "raise"
     THEN fav' = [fav EXCEPT !.pc = "raised"]
     ELSE LET n == ItemCount(response.content)
          IN fav' = [fav EXCEPT
                       !.items = Append(@, [page |-> fav.page, n |-> n]),
                       !.pc = IF IsLastPage(n) THEN "done" ELSE "loop",
                       !.page = IF IsLastPage(n) THEN @ ELSE @ + 1]
  /\ UNCHANGED <<clientVars, ctlVars, now, ticks, maxRun, histVars, start,
                 unresolved, sessionVars, thrVars>>

NextFavorites ==
  \/ GetFavorites \/ GetItems \/ GetItemsPost \/ GetItemsReturn
  \/ RefreshReturn \/ SessionPost \/ ChallengeRecovery \/ Escalate

SpecFavorites == InitFavorites /\ [][NextFavorites]_vars

\* ------------------------------------------ two threads on one client
\* a client built with both tokens and a pinned user agent, shared by threads
InitThreads ==
  /\ email = None
  /\ access_token = 1
  /\ refresh_token = 1
  /\ datadome_cookie = None
  /\ fixed_user_agent = PinnedUserAgent
  /\ maxRun = 0
  /\ InitClient
  /\ InitNoPosts

\* thread t moves on; it races when another thread is inside a call, and it
\* starts a call when it was between calls
ThreadStep(t, rec) ==
  /\ thr' = [thr EXCEPT ![t] = rec]
  /\ raced' = (raced \/ \E u \in Threads \ {t} : thr[u].pc # "idle")
  /\ threadCalls' = IF thr[t].pc = "idle" THEN threadCalls + 1 ELSE threadCalls

\* _post, lines 222-263, in thread t: a POST of the thread is answered 403 and
\* the call arrives at the failsafe
ThreadBlocked(t) ==
  /\ thr[t].pc = "idle" /\ threadCalls < MaxThreadCalls
  /\ ThreadStep(t, [thr[t] EXCEPT !.pc = "load"])
  /\ unresolved' = unresolved + 1
  /\ UNCHANGED <<clientVars, ctlVars, now, ticks, maxRun, histVars, start,
                 sessionVars, fav>>

\* line 264, first half: the attribute is loaded
ThreadLoad(t) ==
  /\ thr[t].pc = "load"
  /\ ThreadStep(t, [thr[t] EXCEPT !.pc = "store", !.reg = captcha_error_count])
  /\ UNCHANGED <<clientVars, ctlVars, now, ticks, maxRun, histVars, start,
                 unresolved, sessionVars, fav>>

\* line 264, second half: the loaded value plus one is stored
ThreadStore(t) ==
  /\ thr[t].pc = "store"
  /\ captcha_error_count' = Incremented(thr[t].reg)
  /\ ThreadStep(t, [thr[t] EXCEPT !.pc = "ladder", !.reg = 0])
  /\ UNCHANGED <<email, access_token, refresh_token, datadome_cookie,
                 last_time_token_refreshed, fixed_user_agent, user_agent, session,
                 ctlVars, now, ticks, maxRun, histVars, start,
                 unresolved, sessionVars, fav>>

\* lines 265-272: the ladder keyed by the counter as it is now
ThreadLadder(t) ==
  /\ thr[t].pc = "ladder"
  /\ \E choice \in USER_AGENTS :
       LET rung == Rung(captcha_error_count)
           recreate == rung \in {"session", "cookie_session", "cooldown"}
           cookie == IF rung = "cookie_session" THEN None ELSE datadome_cookie
           ua == IF rung = "user_agent"
                 THEN GetUserAgent(fixed_user_agent, choice)
                 ELSE IF recreate
                 THEN SessionUserAgent(user_agent, fixed_user_agent, choice)
                 ELSE user_agent
       IN
       /\ captcha_error_count' = IF rung = "cooldown" THEN 0 ELSE captcha_error_count
       /\ datadome_cookie' = cookie
       /\ user_agent' = ua
       /\ session' = IF recreate THEN TgtgSession(session.id, ua, cookie) ELSE session
  /\ ThreadStep(t, [thr[t] EXCEPT !.pc = "idle"])
  /\ UNCHANGED <<email, access_token, refresh_token, last_time_token_refreshed,
                 fixed_user_agent, ctlVars, now, ticks, maxRun, histVars, start,
                 unresolved, sessionVars, fav>>

\* _refresh_token, line 302, in thread t: the refresh POST is answered 200/202
\* with body r, _post zeroes the counter (lines 217-218) and returns r
ThreadRefreshed(t) ==
  /\ thr[t].pc = "idle" /\ threadCalls < MaxThreadCalls
  /\ \E r \in ResponsesOf(REFRESH_ENDPOINT) :
       /\ IsSuccess(r.status)
       /\ ThreadStep(t, [thr[t] EXCEPT !.pc = "access", !.resp = r])
  /\ captcha_error_count' = 0
  /\ unresolved' = 0
  /\ UNCHANGED <<email, access_token, refresh_token, datadome_cookie,
                 last_time_token_refreshed, fixed_user_agent, user_agent, session,
                 ctlVars, now, ticks, maxRun, histVars, start, sessionVars, fav>>

\* line 303
ThreadAccess(t) ==
  /\ thr[t].pc = "access"
  /\ access_token' = JsonToken(thr[t].resp)
  /\ ThreadStep(t, [thr[t] EXCEPT !.pc = "refresh"])
  /\ UNCHANGED <<email, refresh_token, datadome_cookie,
                 last_time_token_refreshed, fixed_user_agent, user_agent, session,
                 captcha_error_count,
                 ctlVars, now, ticks, maxRun, histVars, start,
                 unresolved, sessionVars, fav>>

\* line 304
ThreadRefresh(t) ==
  /\ thr[t].pc = "refresh"
  /\ refresh_token' = JsonToken(thr[t].resp)
  /\ ThreadStep(t, [thr[t] EXCEPT !.pc = "time"])
  /\ UNCHANGED <<email, access_token, datadome_cookie,
                 last_time_token_refreshed, fixed_user_agent, user_agent, session,
                 captcha_error_count,
                 ctlVars, now, ticks, maxRun, histVars, start,
                 unresolved, sessionVars, fav>>

\* line 305
ThreadTime(t) ==
  /\ thr[t].pc = "time"
  /\ last_time_token_refreshed' = now
  /\ ThreadStep(t, [thr[t] EXCEPT !.pc = "idle", !.resp = NoResponse])
  /\ UNCHANGED <<email, access_token, refresh_token, datadome_cookie,
                 fixed_user_agent, user_agent, session, captcha_error_count,
                 ctlVars, now, ticks, maxRun, histVars, start,
                 unresolved, sessionVars, fav>>

NextThreads ==
  \E t \in Threads :
    \/ ThreadBlocked(t) \/ ThreadLoad(t) \/ ThreadStore(t) \/ ThreadLadder(t)
    \/ ThreadRefreshed(t) \/ ThreadAccess(t) \/ ThreadRefresh(t) \/ ThreadTime(t)

SpecThreads == InitThreads /\ [][NextThreads]_vars

\* ------------------------------------------------- the transport session
\* a transport session built on its own, with or without a user agent; no
\* client uses it
InitSession ==
  /\ email = None /\ access_token = None /\ refresh_token = None
  /\ datadome_cookie = None
  /\ fixed_user_agent = None
  /\ maxRun = 0
  /\ InitClient
  /\ headers \in {Headers(ua) : ua \in {None} \cup USER_AGENTS}
  /\ sent = NoRequest /\ nposts = 0
  /\ fav = NoFavorites
  /\ thr = [t \in Threads |-> NoThread] /\ raced = FALSE /\ threadCalls = 0

\* TgtgSession.post(url, access_token=token[, headers=g]), lines 103-108
TgtgSessionPost ==
  \E token \in {None} \cup Tokens, given \in BOOLEAN :
    \E g \in IF given THEN [authorization : {None} \cup Tokens] ELSE {NoHeaders} :
      /\ nposts < MaxPosts
      /\ LET d == WithAuthorization(KwargsHeaders(given, g, headers), token)
             h == IF given THEN headers ELSE d
         IN /\ headers' = h
            /\ sent' = [token |-> token, given |-> given,
                        authorization |-> SentAuthorization(d, h)]
      /\ nposts' = nposts + 1
      /\ UNCHANGED <<clientVars, ctlVars, now, ticks, maxRun, histVars, start,
                     unresolved, fav, thrVars>>

NextSession == TgtgSessionPost

SpecSession == InitSession /\ [][NextSession]_vars

\* ----------------------------------------------------------------- claims
Last(q) == q[Len(q)]

\* the running guarded send got 403 first, then a cookie, then status st
RetryCase(st) ==
  /\ op = "_post"
  /\ Len(statuses) >= 2 /\ statuses[1] = 403 /\ statuses[2] = st
  /\ Len(fetched) >= 1 /\ fetched[1]

\* C1: a guarded send whose first POST is answered 403, whose cookie fetch
\* succeeds and whose next POST is answered 200 ends there: it returns that 200
\* response after exactly 2 POSTs and 1 cookie fetch, with the counter at 0.
C1_RetrySucceeds ==
  RetryCase(200) =>
    /\ pc = "idle"
    /\ result = Returned(response) /\ response.status = 200
    /\ Len(statuses) = 2 /\ Len(fetched) = 1
    /\ captcha_error_count = 0

C1_Witness == RetryCase(200) /\ pc = "idle"

\* C2 as stated: outside the failsafe step the counter equals the number of
\* consecutive unresolved 403 answers since the last 200/202, whatever the
\* length of the run.
C2_CounterIsRunLength ==
  pc # "escalate" => captcha_error_count = unresolved

\* C2 amended: the counter equals that number modulo 10 (the cooldown at the
\* tenth consecutive unresolved 403 sets it back to 0), and it is 0 right after
\* any 200/202 answer.
C2_CounterIsRunLengthMod10 ==
  /\ pc # "escalate" => captcha_error_count = unresolved % 10
  /\ response.status \in {200, 202} => captcha_error_count = 0 /\ unresolved = 0

C2_Witness == unresolved = 11 /\ captcha_error_count = 1 /\ pc = "post"

\* C3: the failsafe step acts by the counter after its increment: at 1 only
\* the user agent is regenerated, at 2 the session is replaced, at 4 the stored
\* cookie is cleared and the session replaced, at 3 and 5..9 nothing is rotated,
\* at 10 it sleeps 600 s, zeroes the counter and replaces the session; always a
\* 1 s sleep and a repeat of the same path follow.
C3_Ladder ==
  [][pc = "escalate" /\ pc' # "escalate" =>
       LET c == captcha_error_count + 1 IN
       /\ pc' = "post" /\ path' = path /\ caller' = caller
       /\ c = 1 => /\ user_agent' \in (IF fixed_user_agent # None
                                        THEN {fixed_user_agent} ELSE USER_AGENTS)
                   /\ session' = session /\ datadome_cookie' = datadome_cookie
       /\ c = 2 => /\ session'.id # session.id
                   /\ session'.user_agent = user_agent
                   /\ session'.datadome = datadome_cookie
                   /\ user_agent' = user_agent /\ datadome_cookie' = datadome_cookie
       /\ c = 4 => /\ datadome_cookie' = None
                   /\ session'.id # session.id /\ session'.datadome = None
                   /\ user_agent' = user_agent
       /\ c \in {3, 5, 6, 7, 8, 9} =>
            /\ session' = session /\ user_agent' = user_agent
            /\ datadome_cookie' = datadome_cookie
       /\ c < 10 => captcha_error_count' = c /\ sleptEsc' = sleptEsc + 1
       /\ c >= 10 => /\ captcha_error_count' = 0
                     /\ sleptEsc' = sleptEsc + 600 + 1
                     /\ session'.id # session.id
                     /\ user_agent' = user_agent /\ datadome_cookie' = datadome_cookie
    ]_vars

C3_Witness ==
  /\ pc = "post" /\ escalations = 3 /\ sleptEsc = 603
  /\ captcha_error_count = 0 /\ unresolved = 10

\* C4 as stated: when the first POST is answered 403, the cookie fetch succeeds
\* and the next POST is answered neither 200/202 nor 403, the send raises
\* APIError with that status and body after 2 POSTs and no failsafe step.
C4_NoEscalationBeforeError ==
  RetryCase(500) =>
    /\ pc = "idle"
    /\ result = Raised("TgtgAPIError", response) /\ response.status = 500
    /\ Len(statuses) = 2
    /\ escalations = 0

\* C5 as stated: a POST answered neither 200/202 nor 403 makes the send raise
\* APIError(status, body) at once; if it was the first POST no cookie fetch was
\* made, and counter, user agent, stored cookie and session are unchanged.
C5_ErrorFrame ==
  [][(pc = "post" /\ Len(statuses') = Len(statuses) + 1
        /\ Last(statuses') \notin {200, 202, 403}) =>
       /\ pc' = "idle"
       /\ result' = Raised("TgtgAPIError", response')
       /\ response'.status = Last(statuses')
       /\ fetched' = fetched
       /\ statuses = <<>> => (Len(statuses') = 1 /\ fetched' = <<>>)
       /\ captcha_error_count' = captcha_error_count
       /\ datadome_cookie' = datadome_cookie
       /\ user_agent' = user_agent
       /\ session' = session
    ]_vars

\* C5 amended: as C5, except that a send on a client that has no session yet
\* first creates it (with the stored cookie), deriving the user agent when the
\* client has none.
C5_ErrorFrameLazySession ==
  [][(pc = "post" /\ Len(statuses') = Len(statuses) + 1
        /\ Last(statuses') \notin {200, 202, 403}) =>
       /\ pc' = "idle"
       /\ result' = Raised("TgtgAPIError", response')
       /\ response'.status = Last(statuses')
       /\ fetched' = fetched
       /\ statuses = <<>> => (Len(statuses') = 1 /\ fetched' = <<>>)
       /\ captcha_error_count' = captcha_error_count
       /\ datadome_cookie' = datadome_cookie
       /\ user_agent # None => user_agent' = user_agent
       /\ session # NoSession => session' = session
       /\ session = NoSession =>
            /\ session'.id # NoSession.id
            /\ session'.user_agent = user_agent' /\ user_agent' # None
            /\ session'.datadome = datadome_cookie
    ]_vars

C5_Witness ==
  /\ op = "_post" /\ pc = "idle" /\ result.exc = "TgtgAPIError"
  /\ statuses = <<500>> /\ fetched = <<>>

\* C6: a guarded send never raises APIError with status 403: while the last
\* POST was answered 403 the send is still running, and an APIError carries a
\* status that is neither 200/202 nor 403, the one of the last POST.
C6_ChallengeAbsorbed ==
  /\ result.exc = "TgtgAPIError" =>
       /\ result.status \notin {200, 202, 403}
       /\ statuses # <<>> /\ result.status = Last(statuses)
  /\ (statuses # <<>> /\ Last(statuses) = 403) =>
       /\ pc \in {"recover", "escalate", "post"}
       /\ result = NoResult

C6_Witness ==
  /\ op = "_post" /\ pc = "idle" /\ result.exc = "TgtgAPIError"
  /\ Len(statuses) = 4 /\ statuses[3] = 403

\* login() is called by a client that holds both tokens and has refreshed before
LoginWithTokens ==
  /\ pc = "idle" /\ op' = "login"
  /\ access_token # None /\ refresh_token # None
  /\ last_time_token_refreshed # NoTime

\* C7 as stated: when the last refresh is older than access_token_lifetime, by
\* however much, login() issues the refresh call.
C7_StaleTokenRefreshed ==
  [][(LoginWithTokens /\ now' - last_time_token_refreshed > access_token_lifetime) =>
       (pc' = "post" /\ path' = REFRESH_ENDPOINT /\ caller' = "refresh")
    ]_vars

\* C8: when the last refresh is within access_token_lifetime, login() returns
\* without any POST or cookie fetch and leaves both tokens, the timestamp and
\* the rest of the client as they are.
C8_FreshTokenKept ==
  [][(LoginWithTokens /\ now' - last_time_token_refreshed <= access_token_lifetime) =>
       /\ pc' = "idle" /\ result' = Returned(NoResponse)
       /\ statuses' = <<>> /\ fetched' = <<>> /\ polls' = 0
       /\ UNCHANGED clientVars
    ]_vars

C8_Witness ==
  /\ op = "login" /\ pc = "idle" /\ result = Returned(NoResponse)
  /\ statuses = <<>>
  /\ last_time_token_refreshed # NoTime
  /\ now - last_time_token_refreshed = access_token_lifetime

\* the running polling call of an email login was answered st
PollAnswered(st) ==
  /\ op = "login" /\ caller = "poll"
  /\ statuses # <<>> /\ Last(statuses) = st

\* C9: when the polling calls of an email login are answered 202s and then a
\* 200, login() makes no further call and ends with both tokens taken from
\* that 200 response and the timestamp recorded, after no more than
\* max_polling_tries polling calls.
C9_PollingSucceeds ==
  PollAnswered(200) =>
    /\ pc \in {"poll_ret", "idle"}
    /\ polls = tries + 1 /\ polls <= max_polling_tries
    /\ response.status = 200
    /\ pc = "idle" =>
         /\ result = Returned(response)
         /\ access_token = response.content + 1
         /\ refresh_token = response.content + 1
         /\ last_time_token_refreshed = now

C9_Witness ==
  PollAnswered(200) /\ pc = "idle" /\ polls = max_polling_tries /\ polls > 1

\* C10: when max_polling_tries consecutive polling calls are answered 202,
\* login() raises PollingError after exactly max_polling_tries polling calls,
\* each call after the first preceded by a wait of polling_wait_time, and the
\* tokens and the timestamp are as they were before the call, not both set.
C10_PollingExhausted ==
  /\ (PollAnswered(202) /\ tries + 1 >= max_polling_tries /\ pc # "poll_ret") =>
       /\ pc = "idle"
       /\ result = Raised("TgtgPollingError", NoResponse)
       /\ polls = max_polling_tries
       /\ Credentials = start
       /\ ~(access_token # None /\ refresh_token # None)
  /\ (op = "login" /\ caller = "poll" /\ pc \in {"post", "recover", "escalate", "poll_ret"}) =>
       /\ polls = tries + 1 /\ polls <= max_polling_tries
       /\ sleptPoll = tries * polling_wait_time

C10_Witness ==
  /\ PollAnswered(202) /\ pc = "idle" /\ result.exc = "TgtgPollingError"
  /\ polls = max_polling_tries /\ sleptPoll = max_polling_tries * polling_wait_time

\* C11: login() raises ConfigurationError exactly when the email is unset and
\* the two tokens are not both set, and then without any POST, cookie fetch or
\* polling call and without creating a session.
C11_ConfigurationError ==
  op = "login" =>
    /\ result.exc = "TGTGConfigurationError" <=>
         (email = None /\ ~(start.access_token # None /\ start.refresh_token # None))
    /\ result.exc = "TGTGConfigurationError" =>
         /\ pc = "idle" /\ result.kind = "raise"
         /\ statuses = <<>> /\ fetched = <<>> /\ polls = 0
         /\ session = NoSession
         /\ Credentials = start

C11_Witness ==
  /\ op = "login" /\ result.exc = "TGTGConfigurationError"
  /\ email = None /\ access_token # None /\ refresh_token = None

\* C12: the two tokens and the refresh timestamp change only in one step, all
\* three together, taken from a refresh response answered 200/202 or a polling
\* response answered 200; when login() ends with an error the three are as they
\* were before the call.
C12_CredentialsAtomic ==
  /\ []((op = "login" /\ pc = "idle" /\ result.kind = "raise") => Credentials = start)
  /\ [][Credentials' # Credentials =>
          /\ \/ pc = "refresh_ret" /\ response.status \in {200, 202}
             \/ pc = "poll_ret" /\ response.status = 200
          /\ access_token' = response.content + 1
          /\ refresh_token' = response.content + 1
          /\ last_time_token_refreshed' = now
          /\ pc' = "idle" /\ result' = Returned(response)
       ]_vars

C12_Witness ==
  /\ op = "login" /\ pc = "idle" /\ result.kind = "return"
  /\ caller = "poll" /\ polls = 2
  /\ Credentials # start
  /\ access_token = response.content + 1 /\ refresh_token = response.content + 1
  /\ last_time_token_refreshed = now

\* C13: a post() with access token T sends "Bearer T", leaves the session's
\* default headers as they were, and a post() without a token and without
\* headers of its own sends no authorization header.
C13_AuthorizationForCallOnly ==
  [][nposts' # nposts =>
       /\ sent'.token # None => sent'.authorization = sent'.token
       /\ headers' = headers
       /\ (sent'.token = None /\ ~sent'.given) => sent'.authorization = None
    ]_vars

RECURSIVE SumItems(_)
\* the number of items in a list kept page by page
SumItems(q) == IF q = <<>> THEN 0 ELSE q[1].n + SumItems(Tail(q))

\* C14: when get_favorites() returns it has asked get_items for pages 1, 2, ...
\* in order, one call per page; every page but the last had 100 items and the
\* last had fewer; the result is the pages in that order (n full pages and one
\* short page: n+1 calls and 100*n + short items).
C14_Pagination ==
  fav.pc = "done" =>
    LET k == Len(fav.items) IN
    /\ k >= 1 /\ Len(fav.asked) = k
    /\ \A i \in 1..k : fav.asked[i] = i /\ fav.items[i].page = i
    /\ \A i \in 1..(k - 1) : fav.items[i].n = PAGE_SIZE
    /\ fav.items[k].n < PAGE_SIZE
    /\ SumItems(fav.items) = PAGE_SIZE * (k - 1) + fav.items[k].n

C14_Witness ==
  /\ fav.pc = "done"
  /\ fav.asked = <<1, 2, 3>>
  /\ fav.items = <<[page |-> 1, n |-> PAGE_SIZE], [page |-> 2, n |-> PAGE_SIZE],
                   [page |-> 3, n |-> ShortPage]>>
  /\ SumItems(fav.items) = 2 * PAGE_SIZE + ShortPage

\* C15: in a guarded send whose first POST is answered 403, whose cookie fetch
\* succeeds and whose next POST is answered 200 or 202, no escalation step is
\* taken: the counter is never incremented.
C15_NoEscalationWhenRetrySucceeds ==
  (RetryCase(HTTP_OK) \/ RetryCase(HTTP_ACCEPTED)) =>
    /\ escalations = 0
    /\ sleptEsc = 0

\* C16: when login() ends right after a successful email-auth POST, no polling
\* call was made; state TERMS gave PollingError, and any state other than TERMS
\* and WAIT, a missing state field included, gave LoginError with the status
\* and body of the response.
C16_LoginStateOutcome ==
  (/\ op = "login" /\ caller = "login" /\ pc = "idle"
   /\ IsSuccess(response.status)) =>
    /\ polls = 0
    /\ response.state # "WAIT"
    /\ response.state = "TERMS" => result.exc = "TgtgPollingError"
    /\ response.state # "TERMS" =>
         result = Raised("TgtgLoginError", response)

\* C17: whenever the failsafe replaces the session, the new session object has
\* a cookie store of its own and an HTTP adapter (connection pool) of its own,
\* shared with the discarded session in neither case.
C17_FreshSession ==
  [][(pc = "escalate" /\ session'.id # session.id) =>
       /\ session'.jar # session.jar
       /\ session'.adapter # session.adapter
    ]_vars

AllIdle == \A t \in Threads : thr[t].pc = "idle"

\* C18: threads on one client interfere only by interleaving: as long as no
\* thread has run while another was inside a call, between calls the counter
\* equals the number of unresolved 403s since the last success and the two
\* tokens come from one response; with interleaving a lost increment and a
\* mixed token pair are reached (the witness).
C18_SerializedIsSafe ==
  (AllIdle /\ ~raced) =>
    /\ captcha_error_count = unresolved
    /\ access_token = refresh_token

C18_Witness ==
  /\ AllIdle /\ raced
  /\ captcha_error_count < unresolved
  /\ access_token # refresh_token

\* C19: whenever a POST is about to be issued through the guarded send on a
\* live session, the session's user-agent header is the client's user_agent.
C19_UserAgentInSync ==
  (pc = "post" /\ session # NoSession) => session.user_agent = user_agent

EndedOnNon403 ==
  (op = "_post" /\ statuses # <<>> /\ Last(statuses) # HTTP_FORBIDDEN) =>
    /\ pc = "idle"
    /\ response.status = Last(statuses)
    /\ result = IF response.status \in {HTTP_OK, HTTP_ACCEPTED}
                THEN Returned(response)
                ELSE Raised("TgtgAPIError", response)
    /\ \A i \in 1..(Len(statuses) - 1) : statuses[i] = HTTP_FORBIDDEN
    /\ Len(fetched) = Len(statuses) - 1
    /\ escalations = Len(fetched)

\* C20: a guarded send whose latest POST was answered with a status other than
\* 403 has ended: it returned that response if the status is 200/202 and raised
\* APIError with it otherwise, every earlier POST of the call was answered 403,
\* and it made one cookie fetch for each of those, successful or not; and when
\* the remote API does not answer 403 for ever, every guarded send ends.
C20_EndsOnFirstNon403 ==
  /\ []EndedOnNon403
  /\ (op = "_post" /\ pc # "idle") ~> (pc = "idle")

C20_Witness ==
  /\ op = "_post" /\ pc = "idle"
  /\ statuses = <<HTTP_FORBIDDEN, HTTP_FORBIDDEN, HTTP_SERVER_ERROR>>
  /\ fetched = <<FALSE, TRUE>>
  /\ result = Raised("TgtgAPIError", response)
====
